---- MODULE Spec2Model ----
(***************************************************************************)
(* Model of the router of packages/typed-response/src/index.ts: the route  *)
(* table built by the proxied registration calls, and handle(), which      *)
(* tries the routes in order, runs the plugins of a matching route through *)
(* Promise.all, calls the handler and normalises whatever is thrown.       *)
(*                                                                         *)
(* Strings are sequences of one-character strings, so that split,          *)
(* toLowerCase and the URL parse are computed and not assumed.             *)
(***************************************************************************)
EXTENDS Integers, Sequences, FiniteSets, TLC

VARIABLES
  routes,        \* the route table of the Router() closure
  receiver,      \* what the last registration call returned, "none" before any
  pc,            \* where handle() is: "idle", "loop", "await", "handler", "done"
  request,       \* the request being dispatched
  segments,      \* url.pathname.split("/")
  idx,           \* the position of the for loop in routes
  context,       \* the context object of the route being run
  results,       \* the promises of the plugins of the route being run
  settledFirst,  \* the plugin whose promise settled first, 0 while none has
  response,      \* what handle() returned
  err,           \* what the catch clause caught
  log,           \* the calls made during the dispatch, in order
  call,          \* the call of a helper or of the matcher that is looked at on its own
  outcome,       \* what that call returned or threw
  app,           \* which plugins and handlers the application has, when they are pure
  first          \* what handle() returned for the same request the time before

vars ==
  <<receiver, routes, pc, request, segments, idx, context, results, settledFirst, response, err, log,
    call, outcome, app, first>>

----------------------------------------------------------------------------
(* Bounds *)

MaxRoutes == 2

MaxPlugins == 2

----------------------------------------------------------------------------
(* Strings *)

LowerTable ==
  [c \in {"G", "E", "T", "P", "O", "S", "A", "L"} |->
     CASE c = "G" -> "g" [] c = "E" -> "e" [] c = "T" -> "t" [] c = "P" -> "p"
       [] c = "O" -> "o" [] c = "S" -> "s" [] c = "A" -> "a" [] c = "L" -> "l"]

\* String.prototype.toLowerCase
toLowerCase(s) ==
  [n \in DOMAIN s |-> IF s[n] \in DOMAIN LowerTable THEN LowerTable[s[n]] ELSE s[n]]

RECURSIVE split(_, _)
\* String.prototype.split(sep) for a one-character separator
split(s, sep) ==
  IF \A n \in DOMAIN s : s[n] # sep
    THEN <<s>>
    ELSE LET p == CHOOSE n \in DOMAIN s : s[n] = sep /\ \A m \in 1..(n - 1) : s[m] # sep
         IN  <<SubSeq(s, 1, p - 1)>> \o split(SubSeq(s, p + 1, Len(s)), sep)

RECURSIVE join(_, _)
\* Array.prototype.join(sep)
join(ss, sep) ==
  IF ss = <<>> THEN <<>>
  ELSE IF Len(ss) = 1 THEN ss[1]
  ELSE ss[1] \o <<sep>> \o join(Tail(ss), sep)

\* new URL(u): the first element of u stands for the scheme and authority,
\* the pathname runs up to the first "?" and the rest is the search part
URL(u) ==
  LET rest == Tail(u)
      q    == IF \E n \in DOMAIN rest : rest[n] = "?"
                THEN CHOOSE n \in DOMAIN rest : rest[n] = "?" /\ \A m \in 1..(n - 1) : rest[m] # "?"
                ELSE Len(rest) + 1
  IN  [origin |-> Head(u), pathname |-> SubSeq(rest, 1, q - 1), search |-> SubSeq(rest, q, Len(rest))]

----------------------------------------------------------------------------
(* Values handled by the router *)

Null == [kind |-> "null"]

Undefined == [kind |-> "undefined"]

\* a string value
Str(t) == [kind |-> "string", text |-> t]

\* a plain object with the given own fields
Obj(f) == [kind |-> "object", fields |-> f]

\* new Error(message)
Error(message) == [kind |-> "Error", message |-> Str(message)]

\* new Response(body, { status, headers }): body is Null or a string
ResponseWith(body, status, headers) ==
  [kind |-> "Response", status |-> status, body |-> body, headers |-> headers]

\* new Response(body, { status }): a string body gets the default text content
\* type, a null body gets none
Response(body, status) ==
  ResponseWith(body, status, IF body = Null THEN {} ELSE {"text/plain;charset=UTF-8"})

\* x == null
IsNullish(x) == x.kind \in {"null", "undefined"}

\* x instanceof Response
IsResponse(x) == x.kind = "Response"

\* x instanceof Error
IsError(x) == x.kind = "Error"

----------------------------------------------------------------------------
(* Pattern matcher (./match.js) *)

\* a named capture ":name"
IsCapture(seg) == Len(seg) > 0 /\ seg[1] = ":"

\* the trailing wildcard "*"
IsWildcard(seg) == seg = <<"*">>

RECURSIVE walkBindsEmpty(_, _, _, _)
\* walk with a named capture binding an empty segment too
walkBindsEmpty(segments_, patternSegments, n, params) ==
  IF n > Len(patternSegments)
    THEN IF Len(segments_) = Len(patternSegments) THEN Obj(params) ELSE Null
  ELSE IF IsWildcard(patternSegments[n]) /\ n = Len(patternSegments)
    THEN IF Len(segments_) >= n - 1
           THEN Obj([k \in DOMAIN params \cup {<<"*">>} |->
                       IF k = <<"*">> THEN Str(join(SubSeq(segments_, n, Len(segments_)), "/"))
                       ELSE params[k]])
           ELSE Null
  ELSE IF n > Len(segments_) THEN Null
  ELSE IF IsCapture(patternSegments[n])
    THEN LET name == Tail(patternSegments[n])
         IN  walkBindsEmpty(segments_, patternSegments, n + 1,
                            [k \in DOMAIN params \cup {name} |->
                               IF k = name THEN Str(segments_[n]) ELSE params[k]])
  ELSE IF segments_[n] = patternSegments[n]
    THEN walkBindsEmpty(segments_, patternSegments, n + 1, params)
  ELSE Null

RECURSIVE walk(_, _, _, _)
\* walk positions n.. of the pattern against the path, params collected so far
walk(segments_, patternSegments, n, params) ==
  IF n > Len(patternSegments)
    THEN IF Len(segments_) = Len(patternSegments) THEN Obj(params) ELSE Null
  ELSE IF IsWildcard(patternSegments[n]) /\ n = Len(patternSegments)
    THEN IF Len(segments_) >= n - 1
           THEN Obj([k \in DOMAIN params \cup {<<"*">>} |->
                       IF k = <<"*">> THEN Str(join(SubSeq(segments_, n, Len(segments_)), "/"))
                       ELSE params[k]])
           ELSE Null
  ELSE IF n > Len(segments_) THEN Null
  ELSE IF IsCapture(patternSegments[n])
    THEN IF segments_[n] = <<>> THEN Null
         ELSE LET name == Tail(patternSegments[n])
              IN  walk(segments_, patternSegments, n + 1,
                       [k \in DOMAIN params \cup {name} |->
                          IF k = name THEN Str(segments_[n]) ELSE params[k]])
  ELSE IF segments_[n] = patternSegments[n]
    THEN walk(segments_, patternSegments, n + 1, params)
  ELSE Null

\* match(segments, patternSegments): Null for "no match", else the params object
match(segments_, patternSegments) == walk(segments_, patternSegments, 1, <<>>)

----------------------------------------------------------------------------
(* The inputs: what is registered, what is requested, and what the plugins *)
(* and handlers of the application do when they are called                 *)

\* the property names the registration proxy is used with
Methods == {<<"g", "e", "t">>, <<"a", "l", "l">>}

\* "/users/:id" and "/users/me"
Patterns ==
  {<<"/", "u", "s", "e", "r", "s", "/", ":", "i", "d">>,
   <<"/", "u", "s", "e", "r", "s", "/", "m", "e">>}

\* GET "/users/me"
GetUsersMe ==
  [method |-> <<"G", "E", "T">>,
   url |-> <<"http://h", "/", "u", "s", "e", "r", "s", "/", "m", "e">>]

\* POST "/users/42?a"
PostUsers42 ==
  [method |-> <<"P", "O", "S", "T">>,
   url |-> <<"http://h", "/", "u", "s", "e", "r", "s", "/", "4", "2", "?", "a">>]

\* the requests handle() is called with
Requests == {GetUsersMe, PostUsers42}

\* the response plugin k answers with when it short-circuits
PluginResponse(k) ==
  ResponseWith(Str(<<"plugin", k>>), 401, {"application/json"})

\* the field mapping plugin k contributes: the odd ones a user and a role,
\* the even ones another user and fields named params and url
PluginFields(k) ==
  IF k % 2 = 1
    THEN Obj([user |-> Str(<<"alice">>), role |-> Str(<<"admin">>)])
    ELSE Obj([user |-> Str(<<"bob">>),
              params |-> Obj([n \in {<<"i", "d">>} |-> Str(<<"forged">>)]),
              url |-> Str(<<"forged">>)])

\* what a plugin's promise may be fulfilled with
PluginValues(k) == {PluginFields(k), PluginResponse(k)}

\* what a plugin (k >= 1) or a handler (k = 0) may throw or reject with
Thrown(k) ==
  {Error(<<"boom", k>>),
   ResponseWith(Str(<<"thrown", k>>), 403, {"application/json"}),
   Str(<<"oops">>)}

\* the response the handler of route i answers with
HandlerResponse(i) ==
  ResponseWith(Str(<<"handler", i>>), 200, {"application/json"})

\* what a handler may complete with
HandlerValues(i) == {HandlerResponse(i), Null, Undefined}

----------------------------------------------------------------------------
(* The log of calls made during a dispatch *)

Event(op, route_, plugin) == [op |-> op, route |-> route_, plugin |-> plugin]

\* the events of calling the plugins 1..n of route i, in order
RECURSIVE PluginCalls(_, _)
PluginCalls(i, n) ==
  IF n = 0 THEN <<>> ELSE Append(PluginCalls(i, n - 1), Event("plugin", i, n))

----------------------------------------------------------------------------
(* Router *)

Pending == [state |-> "pending", value |-> Undefined]

Fulfilled(v) == [state |-> "fulfilled", value |-> v]

Rejected(v) == [state |-> "rejected", value |-> v]

\* const routes = []; nothing is being dispatched
Init ==
  /\ receiver = "none"
  /\ routes = <<>>
  /\ pc = "idle"
  /\ request = Null
  /\ segments = <<>>
  /\ idx = 0
  /\ context = Null
  /\ results = <<>>
  /\ settledFirst = 0
  /\ response = Null
  /\ err = Null
  /\ log = <<>>
  /\ call = Null
  /\ outcome = Null
  /\ app = 0
  /\ first = Null

\* Register with routes.unshift in the place of routes.push
RegisterFirst(property, pattern, n) ==
  /\ pc = "idle"
  /\ Len(routes) < MaxRoutes
  /\ routes' = <<[property |-> property,
                  patternSegments |-> split(pattern, "/"),
                  plugins |-> n]>> \o routes
  /\ receiver' = "router"
  /\ UNCHANGED <<call, outcome, app, first>>
  /\ UNCHANGED <<pc, request, segments, idx, context, results, settledFirst, response, err, log>>

\* router[property](pattern, plugins, h): the proxy's get trap returns a function
\* that splits the pattern, builds the route closure, pushes it and returns
\* the receiver of the property access, which is the router
Register(property, pattern, n) ==
  /\ pc = "idle"
  /\ Len(routes) < MaxRoutes
  /\ routes' = Append(routes, [property |-> property,
                               patternSegments |-> split(pattern, "/"),
                               plugins |-> n])
  /\ receiver' = "router"
  /\ UNCHANGED <<call, outcome, app, first>>
  /\ UNCHANGED <<pc, request, segments, idx, context, results, settledFirst, response, err, log>>

\* handle(request): parse the url, split the path, enter the loop over routes
Handle(req) ==
  /\ pc = "idle"
  /\ request' = req
  /\ segments' = split(URL(req.url).pathname, "/")
  /\ idx' = 1
  /\ pc' = "loop"
  /\ log' = <<Event("URL", 0, 0)>>
  /\ UNCHANGED <<call, outcome, app, first, receiver, routes, context, results, settledFirst, response, err>>

\* MethodRejects with == in the place of the second !=
MethodRejectsSame(property, method) ==
  property # <<"a", "l", "l">> /\ toLowerCase(method) = property

\* property != "all" && request.method.toLowerCase() != property
MethodRejects(property, method) ==
  property # <<"a", "l", "l">> /\ toLowerCase(method) # property

\* Catch with the message of an Error left out of the body
CatchNoMessage(e) ==
  IF IsResponse(e) THEN e ELSE Response(Null, 500)

\* Catch with a thrown Response rebuilt from its body and status
CatchRebuilds(e) ==
  IF IsResponse(e) THEN Response(e.body, e.status)
  ELSE IF IsError(e) THEN Response(e.message, 500)
  ELSE Response(Null, 500)

\* catch (err) { ... }: the response a thrown value is turned into
Catch(e) ==
  IF IsResponse(e) THEN e
  ELSE IF IsError(e) THEN Response(e.message, 500)
  ELSE Response(Null, 500)

\* Assign with the fields the target already has kept
AssignKeepsTarget(target, source) ==
  [f \in DOMAIN target \cup DOMAIN source |->
     IF f \in DOMAIN target THEN target[f] ELSE source[f]]

\* Object.assign(target, source) on the fields of two objects
Assign(target, source) ==
  [f \in DOMAIN target \cup DOMAIN source |->
     IF f \in DOMAIN source THEN source[f] ELSE target[f]]

RECURSIVE InspectSkipsResponses(_, _, _)
\* Inspect with a Response among the results passed over
InspectSkipsResponses(rs, n, ctx) ==
  IF n > Len(rs) THEN Obj(ctx)
  ELSE InspectSkipsResponses(rs, n + 1, IF IsResponse(rs[n].value) THEN ctx
                                        ELSE Assign(ctx, rs[n].value.fields))

RECURSIVE InspectLast(_, _, _)
\* Inspect with a later Response taking the place of an earlier one
InspectLast(rs, n, ctx) ==
  IF n > Len(rs) THEN Obj(ctx)
  ELSE LET later == InspectLast(rs, n + 1, IF IsResponse(rs[n].value) THEN ctx
                                           ELSE Assign(ctx, rs[n].value.fields))
       IN  IF IsResponse(later) \/ ~IsResponse(rs[n].value) THEN later ELSE rs[n].value

RECURSIVE InspectKeepsBase(_, _, _)
\* Inspect with the fields params, url and request of the context protected
\* from what the plugins contribute
InspectKeepsBase(rs, n, ctx) ==
  IF n > Len(rs) THEN Obj(ctx)
  ELSE IF IsResponse(rs[n].value) THEN rs[n].value
  ELSE LET given == rs[n].value.fields
           kept  == DOMAIN given \ {"params", "url", "request"}
       IN  InspectKeepsBase(rs, n + 1, Assign(ctx, [f \in kept |-> given[f]]))

RECURSIVE Inspect(_, _, _)
\* for (const result of results) { ... }: the first Response among the results
\* from position n on, or the context with every result assigned to it
Inspect(rs, n, ctx) ==
  IF n > Len(rs) THEN Obj(ctx)
  ELSE IF IsResponse(rs[n].value) THEN rs[n].value
  ELSE Inspect(rs, n + 1, Assign(ctx, rs[n].value.fields))

\* const context = { params, url: new URL(request.url), request }
BaseContext(params, req) ==
  [params |-> params, url |-> URL(req.url), request |-> req]

\* Returned with the loop carrying on after a response
ReturnedContinues(v) ==
  pc' = "loop" /\ idx' = idx + 1 /\ err' = err
    /\ response' = IF IsNullish(v) THEN response ELSE v

\* handle's loop on the value a route returned:
\* if (response == null) continue; return response;
Returned(v) ==
  IF IsNullish(v)
    THEN pc' = "loop" /\ idx' = idx + 1 /\ response' = response /\ err' = err
    ELSE pc' = "done" /\ idx' = idx /\ response' = v /\ err' = err

\* Threw with the catch clause missing: the value escapes handle()
ThrewEscapes(e) ==
  pc' = "rejected" /\ idx' = idx /\ response' = response /\ err' = e

\* Threw with the loop carrying on with the next route after a failure
ThrewContinues(e) ==
  pc' = "loop" /\ idx' = idx + 1 /\ response' = response /\ err' = e

\* handle's try/catch around the loop on the value a route threw or rejected
\* with: the catch clause returns a response ("rejected" would be handle()
\* itself rejecting, the value escaping to the caller)
Threw(e) ==
  pc' = "done" /\ idx' = idx /\ response' = Catch(e) /\ err' = e

\* the route after Promise.all has resolved with results rs: inspect them in
\* order, return the first Response or call the handler with the merged context
AfterAll(rs, ctx, lg) ==
  LET out == Inspect(rs, 1, ctx)
  IN  IF IsResponse(out)
        THEN Returned(out) /\ context' = Obj(ctx) /\ log' = lg
        ELSE /\ pc' = "handler"
             /\ context' = out
             /\ log' = Append(lg, Event("handler", idx, 0))
             /\ UNCHANGED <<idx, response, err>>

\* RouteSkipMethod with match() called before the method is looked at
RouteSkipMethodAfterMatch ==
  /\ pc = "loop"
  /\ idx <= Len(routes)
  /\ MethodRejects(routes[idx].property, request.method)
  /\ log' = log \o <<Event("route", idx, 0), Event("match", idx, 0)>>
  /\ Returned(Null)
  /\ UNCHANGED <<call, outcome, app, first, receiver, routes, request, segments, context, results, settledFirst>>

\* the route closure is called and returns null at the method check
RouteSkipMethod ==
  /\ pc = "loop"
  /\ idx <= Len(routes)
  /\ MethodRejects(routes[idx].property, request.method)
  /\ log' = Append(log, Event("route", idx, 0))
  /\ Returned(Null)
  /\ UNCHANGED <<call, outcome, app, first, receiver, routes, request, segments, context, results, settledFirst>>

\* the route closure is called, the method fits and match() returns null
RouteSkipPattern ==
  /\ pc = "loop"
  /\ idx <= Len(routes)
  /\ ~MethodRejects(routes[idx].property, request.method)
  /\ IsNullish(match(segments, routes[idx].patternSegments))
  /\ log' = log \o <<Event("route", idx, 0), Event("match", idx, 0)>>
  /\ Returned(Null)
  /\ UNCHANGED <<call, outcome, app, first, receiver, routes, request, segments, context, results, settledFirst>>

\* method and pattern fit
RouteMatches(i) ==
  /\ ~MethodRejects(routes[i].property, request.method)
  /\ ~IsNullish(match(segments, routes[i].patternSegments))

\* the calls a matching route makes up to and including plugin k
EnterLog(k) ==
  log \o <<Event("route", idx, 0), Event("match", idx, 0), Event("URL", idx, 0)>>
      \o PluginCalls(idx, k)

\* the route matches, builds its context and calls every plugin; none throws
\* while being called, so the route awaits Promise.all of what they returned
RouteEnter ==
  /\ pc = "loop"
  /\ idx <= Len(routes)
  /\ RouteMatches(idx)
  /\ LET n   == routes[idx].plugins
         ctx == BaseContext(match(segments, routes[idx].patternSegments), request)
         rs  == [k \in 1..n |-> Pending]
     IN  /\ results' = rs
         /\ settledFirst' = 0
         /\ IF n = 0
              THEN AfterAll(rs, ctx, EnterLog(n))
              ELSE /\ pc' = "await"
                   /\ context' = Obj(ctx)
                   /\ log' = EnterLog(n)
                   /\ UNCHANGED <<idx, response, err>>
  /\ UNCHANGED <<call, outcome, app, first, receiver, routes, request, segments>>

\* the route matches and plugin k throws while plugins.map is calling it: the
\* later plugins are not called and the route rejects with what was thrown
RoutePluginThrows(k, e) ==
  /\ pc = "loop"
  /\ idx <= Len(routes)
  /\ RouteMatches(idx)
  /\ k \in 1..routes[idx].plugins
  /\ results' = [j \in 1..routes[idx].plugins |->
                   IF j < k THEN Pending
                   ELSE IF j = k THEN [state |-> "threw", value |-> e]
                   ELSE [state |-> "notcalled", value |-> Undefined]]
  /\ context' = Obj(BaseContext(match(segments, routes[idx].patternSegments), request))
  /\ settledFirst' = 0
  /\ log' = EnterLog(k)
  /\ Threw(e)
  /\ UNCHANGED <<call, outcome, app, first, receiver, routes, request, segments>>

\* PluginFulfil with the route returning a Response as soon as a plugin yields
\* one, without waiting for the promises still pending
PluginFulfilEager(k, v) ==
  /\ pc = "await"
  /\ k \in DOMAIN results
  /\ results[k].state = "pending"
  /\ LET rs == [results EXCEPT ![k] = Fulfilled(v)]
     IN  /\ results' = rs
         /\ settledFirst' = IF settledFirst = 0 THEN k ELSE settledFirst
         /\ IF IsResponse(v)
              THEN Returned(v) /\ UNCHANGED <<context, log>>
              ELSE IF \A j \in DOMAIN rs : rs[j].state = "fulfilled"
                THEN AfterAll(rs, context.fields, log)
                ELSE UNCHANGED <<pc, idx, response, err, context, log>>
  /\ UNCHANGED <<call, outcome, app, first, receiver, routes, request, segments>>

\* the promise of plugin k is fulfilled with v; Promise.all resolves once every
\* promise is fulfilled
PluginFulfil(k, v) ==
  /\ pc = "await"
  /\ k \in DOMAIN results
  /\ results[k].state = "pending"
  /\ LET rs == [results EXCEPT ![k] = Fulfilled(v)]
     IN  /\ results' = rs
         /\ settledFirst' = IF settledFirst = 0 THEN k ELSE settledFirst
         /\ IF \A j \in DOMAIN rs : rs[j].state = "fulfilled"
              THEN AfterAll(rs, context.fields, log)
              ELSE UNCHANGED <<pc, idx, response, err, context, log>>
  /\ UNCHANGED <<call, outcome, app, first, receiver, routes, request, segments>>

\* PluginReject with the Response of an earlier plugin, if one has been
\* yielded, returned in the place of the failure
PluginRejectAfterResponse(k, e) ==
  /\ pc = "await"
  /\ k \in DOMAIN results
  /\ results[k].state = "pending"
  /\ results' = [results EXCEPT ![k] = Rejected(e)]
  /\ settledFirst' = IF settledFirst = 0 THEN k ELSE settledFirst
  /\ IF \E j \in 1..(k - 1) : IsResponse(results[j].value)
       THEN Returned(results[CHOOSE j \in 1..(k - 1) : IsResponse(results[j].value)].value)
       ELSE Threw(e)
  /\ UNCHANGED <<call, outcome, app, first, receiver, routes, request, segments, context, log>>

\* the promise of plugin k is rejected with e; Promise.all rejects at once,
\* whatever the other promises do
PluginReject(k, e) ==
  /\ pc = "await"
  /\ k \in DOMAIN results
  /\ results[k].state = "pending"
  /\ results' = [results EXCEPT ![k] = Rejected(e)]
  /\ settledFirst' = IF settledFirst = 0 THEN k ELSE settledFirst
  /\ Threw(e)
  /\ UNCHANGED <<call, outcome, app, first, receiver, routes, request, segments, context, log>>

\* HandlerReturn with a handler that completes with null or undefined ending
\* the dispatch with the fallback response
HandlerReturnNothingEnds(v) ==
  /\ pc = "handler"
  /\ IF IsNullish(v) THEN Returned(Response(Null, 500)) ELSE Returned(v)
  /\ log' = Append(log, Event(IF IsNullish(v) THEN "nothing" ELSE "response", idx, 0))
  /\ UNCHANGED <<results, settledFirst, context>>
  /\ UNCHANGED <<call, outcome, app, first, receiver, routes, request, segments>>

\* return h(context, ...rest): the handler completes with v
HandlerReturn(v) ==
  /\ pc = "handler"
  /\ Returned(v)
  /\ log' = Append(log, Event(IF IsNullish(v) THEN "nothing" ELSE "response", idx, 0))
  /\ IF IsNullish(v)
       THEN results' = <<>> /\ settledFirst' = 0 /\ context' = Null
       ELSE UNCHANGED <<results, settledFirst, context>>
  /\ UNCHANGED <<call, outcome, app, first, receiver, routes, request, segments>>

\* the handler throws or rejects with e
HandlerThrow(e) ==
  /\ pc = "handler"
  /\ Threw(e)
  /\ log' = Append(log, Event("threw", idx, 0))
  /\ UNCHANGED <<call, outcome, app, first, receiver, routes, request, segments, context, results, settledFirst>>

\* the loop ends without a route having returned a response
Fallback ==
  /\ pc = "loop"
  /\ idx > Len(routes)
  /\ response' = Response(Null, 500)
  /\ pc' = "done"
  /\ UNCHANGED <<call, outcome, app, first, receiver, routes, request, segments, idx, context, results, settledFirst, err, log>>

Next ==
  \/ \E property \in Methods, pattern \in Patterns, n \in 0..MaxPlugins :
       Register(property, pattern, n)
  \/ \E req \in Requests : Handle(req)
  \/ RouteSkipMethod
  \/ RouteSkipPattern
  \/ RouteEnter
  \/ \E k \in 1..MaxPlugins : \E e \in Thrown(k) : RoutePluginThrows(k, e)
  \/ \E k \in 1..MaxPlugins : \E v \in PluginValues(k) : PluginFulfil(k, v)
  \/ \E k \in 1..MaxPlugins : \E e \in Thrown(k) : PluginReject(k, e)
  \/ \E v \in HandlerValues(idx) : HandlerReturn(v)
  \/ \E e \in Thrown(0) : HandlerThrow(e)
  \/ Fallback

Spec == Init /\ [][Next]_vars

----------------------------------------------------------------------------
(* The response helpers json, text and ok *)

\* a call that returned v, a call that threw e
Returns(v) == [kind |-> "returned", value |-> v]

Throws(e) == [kind |-> "threw", value |-> e]

\* JSON.stringify(v) for undefined, null, a string and an object with at most
\* one own field: a string, or undefined when there is nothing to serialize
RECURSIVE stringify(_)
stringify(v) ==
  CASE v.kind = "undefined" -> Undefined
    [] v.kind = "null" -> Str(<<"n", "u", "l", "l">>)
    [] v.kind = "string" -> Str(<<"\"">> \o v.text \o <<"\"">>)
    [] v.kind = "object" ->
         IF DOMAIN v.fields = {} THEN Str(<<"{", "}">>)
         ELSE LET k     == CHOOSE f \in DOMAIN v.fields : TRUE
                  inner == stringify(v.fields[k])
              IN  IF inner.kind = "undefined" THEN Str(<<"{", "}">>)
                  ELSE Str(<<"{", "\"", k, "\"", ":">> \o inner.text \o <<"}">>)

\* the statuses a Response may have no body with
NullBodyStatus == {101, 103, 204, 205, 304}

\* { ...init }: the own fields of init, none when init is undefined
Spread(init) == IF init.kind = "object" THEN init.fields ELSE <<>>

\* { ...init?.headers }
SpreadHeaders(init) ==
  IF init.kind = "object" /\ "headers" \in DOMAIN init.fields THEN init.fields.headers ELSE <<>>

\* { ...init, status: code, headers: { ...init?.headers, "Content-Type": type } }
ResponseInit(init, code, type) ==
  Assign(Assign(Spread(init), [status |-> code]),
         [headers |-> Assign(SpreadHeaders(init), [h \in {"Content-Type"} |-> type])])

\* new Response(b, init), the headers as a mapping from name to value: with a
\* body that is not null and a status that allows none the constructor throws
\* a TypeError where it follows the Fetch standard, and some runtimes take an
\* empty string for no body; the model leaves open which
NewResponse(b, init) ==
  IF ~IsNullish(b) /\ init.status \in NullBodyStatus
    THEN {Throws(Error(<<"TypeError">>))}
           \cup (IF b = Str(<<>>) THEN {Returns(ResponseWith(Null, init.status, init.headers))}
                 ELSE {})
    ELSE {Returns(ResponseWith(IF IsNullish(b) THEN Null ELSE b, init.status, init.headers))}

\* json(code, value, init)
json(code, value, init) ==
  NewResponse(stringify(value), ResponseInit(init, code, "application/json"))

\* text(code, value, init)
text(code, value, init) ==
  NewResponse(value, ResponseInit(init, code, "text/plain"))

\* ok(code, value, init)
ok(code, value, init) ==
  IF code = 204 \/ code = 205
    THEN text(code, Str(<<>>), init)
    ELSE json(code, IF IsNullish(value) THEN Null ELSE value, init)

----------------------------------------------------------------------------
(* The helpers and the matcher called on their own *)

\* the longest path, in segments
MaxSegments == 3

\* the segments paths are made of
Segs ==
  {<<"u", "s", "e", "r", "s">>, <<"4", "2">>, <<"m", "e">>, <<"e", "x", "t", "r", "a">>, <<>>}

\* the paths: "/" and the segments joined by "/"
Paths ==
  {<<"/">> \o join(ss, "/") : ss \in UNION {[1..n -> Segs] : n \in 1..MaxSegments}}

\* "/users/:id", "/users/me" and "/users/*"
MatchPatterns == Patterns \cup {<<"/", "u", "s", "e", "r", "s", "/", "*">>}

\* the codes, values and inits the helpers are called with
Codes == {200, 201, 204, 205}

Values ==
  {Undefined, Null, Str(<<>>), Str(<<"o", "k">>), Obj([value |-> Str(<<"o", "k">>)])}

Inits ==
  {Undefined,
   Obj([headers |-> [h \in {"X-Id"} |-> "1"]]),
   Obj([headers |-> [h \in {"Content-Type"} |-> "text/html"]]),
   Obj([status |-> 500, statusText |-> "Teapot"])}

Calls ==
  [fn : {"ok", "json"}, code : Codes, value : Values, init : Inits]
    \cup [fn : {"text"}, code : Codes, value : {Str(<<>>), Str(<<"o", "k">>)}, init : Inits]
    \cup [fn : {"match"}, pattern : MatchPatterns, path : Paths]

\* a call is picked and not yet made; the router is as constructed
InitCall ==
  /\ call \in Calls
  /\ outcome = Null
  /\ app = 0
  /\ first = Null
  /\ receiver = "none"
  /\ routes = <<>>
  /\ pc = "idle"
  /\ request = Null
  /\ segments = <<>>
  /\ idx = 0
  /\ context = Null
  /\ results = <<>>
  /\ settledFirst = 0
  /\ response = Null
  /\ err = Null
  /\ log = <<>>

\* what a route does with its pattern and the path of the request:
\* pattern.split("/"), url.pathname.split("/"), match(segments, patternSegments)
CallMatch ==
  /\ call.fn = "match"
  /\ outcome = Null
  /\ outcome' = Returns(match(split(URL(<<"http://h">> \o call.path).pathname, "/"),
                              split(call.pattern, "/")))
  /\ UNCHANGED <<call, app, first, receiver, routes, pc, request, segments, idx, context,
                 results, settledFirst, response, err, log>>

CallOk ==
  /\ call.fn = "ok"
  /\ outcome = Null
  /\ outcome' \in ok(call.code, call.value, call.init)
  /\ UNCHANGED <<call, app, first, receiver, routes, pc, request, segments, idx, context,
                 results, settledFirst, response, err, log>>

CallJson ==
  /\ call.fn = "json"
  /\ outcome = Null
  /\ outcome' \in json(call.code, call.value, call.init)
  /\ UNCHANGED <<call, app, first, receiver, routes, pc, request, segments, idx, context,
                 results, settledFirst, response, err, log>>

CallText ==
  /\ call.fn = "text"
  /\ outcome = Null
  /\ outcome' \in text(call.code, call.value, call.init)
  /\ UNCHANGED <<call, app, first, receiver, routes, pc, request, segments, idx, context,
                 results, settledFirst, response, err, log>>

NextCall == CallMatch \/ CallOk \/ CallJson \/ CallText

SpecCall == InitCall /\ [][NextCall]_vars

----------------------------------------------------------------------------
(* The same request dispatched twice, with pure plugins and handlers: what *)
(* each does is a function of the request, and so is the order in which    *)
(* the promises of the plugins settle                                      *)

\* the applications: each is a choice of pure plugins and handlers
Apps == 0..5

\* 0 for a GET request, 1 for any other
Verb(req) == IF toLowerCase(req.method) = <<"g", "e", "t">> THEN 0 ELSE 1

\* what plugin k of route i of application a does with the request
PurePlugin(a, i, k, req) ==
  LET n == (a + 2 * i + k + Verb(req)) % 5
  IN  CASE n \in {0, 1} -> [how |-> "fulfil", value |-> PluginFields(k)]
        [] n = 2 -> [how |-> "fulfil", value |-> PluginResponse(k)]
        [] n = 3 -> [how |-> "reject", value |-> Error(<<"boom", k>>)]
        [] n = 4 -> [how |-> "throw", value |-> Str(<<"oops">>)]

\* what the handler of route i of application a does with the request
PureHandler(a, i, req) ==
  LET n == (a + i + Verb(req)) % 4
  IN  CASE n = 0 -> [how |-> "return", value |-> HandlerResponse(i)]
        [] n = 1 -> [how |-> "return", value |-> Null]
        [] n = 2 -> [how |-> "throw", value |-> Error(<<"boom", 0>>)]
        [] n = 3 -> [how |-> "return", value |-> Undefined]

\* the plugins of the current route that throw while being called
Throwers == {k \in 1..routes[idx].plugins : PurePlugin(app, idx, k, request).how = "throw"}

\* the plugin whose promise settles next: the pending ones settle in
\* declaration order in the even applications, in the reverse order in the odd
NextToSettle ==
  LET pending == {k \in DOMAIN results : results[k].state = "pending"}
  IN  IF app % 2 = 0 THEN CHOOSE k \in pending : \A j \in pending : k <= j
      ELSE CHOOSE k \in pending : \A j \in pending : k >= j

InitTwice ==
  /\ app \in Apps
  /\ first = Null
  /\ call = Null
  /\ outcome = Null
  /\ receiver = "none"
  /\ routes = <<>>
  /\ pc = "idle"
  /\ request = Null
  /\ segments = <<>>
  /\ idx = 0
  /\ context = Null
  /\ results = <<>>
  /\ settledFirst = 0
  /\ response = Null
  /\ err = Null
  /\ log = <<>>

\* the route matches and its plugins are called: the first that throws, if
\* there is one, ends the calls
PureEnter ==
  /\ pc = "loop"
  /\ idx <= Len(routes)
  /\ RouteMatches(idx)
  /\ IF Throwers = {}
       THEN RouteEnter
       ELSE LET k == CHOOSE t \in Throwers : \A j \in Throwers : t <= j
            IN  RoutePluginThrows(k, PurePlugin(app, idx, k, request).value)

\* the next promise settles the way its plugin decides
PureSettle ==
  /\ pc = "await"
  /\ LET k == NextToSettle
         p == PurePlugin(app, idx, k, request)
     IN  IF p.how = "fulfil" THEN PluginFulfil(k, p.value) ELSE PluginReject(k, p.value)

\* the handler completes the way it decides
PureHandle ==
  /\ pc = "handler"
  /\ LET h == PureHandler(app, idx, request)
     IN  IF h.how = "return" THEN HandlerReturn(h.value) ELSE HandlerThrow(h.value)

\* HandleAgain with the routes up to the one that answered used up
HandleAgainConsumed ==
  /\ pc = "done"
  /\ first = Null
  /\ first' = response
  /\ routes' = SubSeq(routes, idx + 1, Len(routes))
  /\ segments' = split(URL(request.url).pathname, "/")
  /\ idx' = 1
  /\ pc' = "loop"
  /\ log' = <<Event("URL", 0, 0)>>
  /\ context' = Null
  /\ results' = <<>>
  /\ settledFirst' = 0
  /\ response' = Null
  /\ err' = Null
  /\ UNCHANGED <<call, outcome, app, receiver, request>>

\* handle(request) is called again with the request of the dispatch that has
\* ended, whose response is kept for the comparison: the locals of the first
\* call are gone, the router is what it is
HandleAgain ==
  /\ pc = "done"
  /\ first = Null
  /\ first' = response
  /\ segments' = split(URL(request.url).pathname, "/")
  /\ idx' = 1
  /\ pc' = "loop"
  /\ log' = <<Event("URL", 0, 0)>>
  /\ context' = Null
  /\ results' = <<>>
  /\ settledFirst' = 0
  /\ response' = Null
  /\ err' = Null
  /\ UNCHANGED <<call, outcome, app, receiver, routes, request>>

NextTwice ==
  \/ \E property \in Methods, pattern \in Patterns, n \in 0..MaxPlugins :
       Register(property, pattern, n)
  \/ \E req \in Requests : Handle(req)
  \/ RouteSkipMethod
  \/ RouteSkipPattern
  \/ PureEnter
  \/ PureSettle
  \/ PureHandle
  \/ Fallback
  \/ HandleAgain

SpecTwice == InitTwice /\ [][NextTwice]_vars

----------------------------------------------------------------------------
(* What the log and the results say about the dispatch *)

\* the call op was made for route i
Logged(op, i) == \E n \in DOMAIN log : log[n].op = op /\ log[n].route = i

\* the routes the call op was made for
Ran(op) == {log[n].route : n \in {m \in DOMAIN log : log[m].op = op}}

\* the routes that match the request by method and pattern
Matching == {i \in DOMAIN routes : RouteMatches(i)}

\* a dispatch has been started
Dispatching == pc # "idle"

\* the plugins of the current route whose promise was fulfilled with a Response
ResponsePlugins ==
  {k \in DOMAIN results : results[k].state = "fulfilled" /\ IsResponse(results[k].value)}

\* the plugins of the current route that threw or whose promise was rejected
FailedPlugins == {k \in DOMAIN results : results[k].state \in {"threw", "rejected"}}

\* Promise.all has resolved
AllFulfilled == \A k \in DOMAIN results : results[k].state = "fulfilled"

Least(S) == CHOOSE k \in S : \A j \in S : k <= j

----------------------------------------------------------------------------
(* C1 *)

----------------------------------------------------------------------------
(* C2 *)

\* C2: whatever the order in which the plugin promises settle, nothing is
\* returned while one is pending, and once all are fulfilled and some result
\* is a Response the route returns the Response of the lowest-index plugin.
C2_LowestIndexResponse ==
  Dispatching =>
    /\ pc = "await" => response = Null
    /\ (results # <<>> /\ AllFulfilled /\ ResponsePlugins # {}) =>
         /\ pc = "done"
         /\ err = Null
         /\ response = results[Least(ResponsePlugins)].value

\* plugins [A, B] both answer with a Response, B's promise settles first, and
\* A's response is what handle() returned
C2_Witness ==
  /\ pc = "done"
  /\ Len(results) = 2
  /\ ResponsePlugins = {1, 2}
  /\ settledFirst = 2
  /\ response = PluginResponse(1)
  /\ response # PluginResponse(2)

----------------------------------------------------------------------------
(* C3 *)

\* C3: handle() never rejects, and what it returns is a Response, whatever
\* the plugins and handlers return, throw or reject with.
C3_AlwaysAResponse ==
  /\ pc # "rejected"
  /\ pc = "done" => IsResponse(response)
  /\ pc # "done" => response = Null

\* a dispatch that ended in the catch clause with a value that is no Response
C3_Witness ==
  /\ pc = "done"
  /\ err # Null
  /\ ~IsResponse(err)
  /\ IsResponse(response)

----------------------------------------------------------------------------
(* C4 *)

----------------------------------------------------------------------------
(* C5 *)

\* C5: a value thrown by a plugin or the handler of the route being run is
\* what the catch clause gets; when it is an Error the response has status 500
\* and the error's message as its body; when it is neither a Response nor an
\* Error the response has status 500, a null body and no header.
C5_ErrorsBecome500 ==
  Dispatching =>
    /\ \A k \in FailedPlugins : pc = "done" /\ err = results[k].value
    /\ \A i \in Ran("threw") : pc = "done" /\ idx = i /\ err \in Thrown(0)
    /\ (pc = "done" /\ err # Null /\ IsError(err)) =>
         response.status = 500 /\ response.body = err.message
    /\ (pc = "done" /\ err # Null /\ ~IsError(err) /\ ~IsResponse(err)) =>
         response.status = 500 /\ response.body = Null /\ response.headers = {}

\* the promise of a plugin was rejected with an Error and handle() returned a
\* 500 whose body is the message
C5_Witness ==
  /\ pc = "done"
  /\ \E k \in DOMAIN results :
       /\ results[k] = Rejected(Error(<<"boom", k>>))
       /\ response.status = 500
       /\ response.body = Str(<<"boom", k>>)

----------------------------------------------------------------------------
(* C6 *)

\* C6: when what was thrown is a Response, handle() returns that Response as
\* it is, and no route after the one that threw is called.
C6_ThrownResponseVerbatim ==
  (pc = "done" /\ err # Null /\ IsResponse(err)) =>
    /\ response = err
    /\ \A j \in (idx + 1)..Len(routes) : ~Logged("route", j)

\* the handler of the first route threw a Response, which is returned with
\* its status, body and headers; the second route matches and was not called
C6_Witness ==
  /\ pc = "done"
  /\ Len(routes) = 2
  /\ Logged("threw", 1)
  /\ RouteMatches(2)
  /\ ~Logged("route", 2)
  /\ response = ResponseWith(Str(<<"thrown", 0>>), 403, {"application/json"})

----------------------------------------------------------------------------
(* C7 *)

\* C7: when no route matches the request, the response differs in status or
\* in body from every response handle() returns for a handler that threw
\* something that is not a Response.
C7_FallbackDistinguishable ==
  (pc = "done" /\ \A i \in DOMAIN routes : ~RouteMatches(i)) =>
    \A e \in Thrown(0) :
      ~IsResponse(e) => (response.status # Catch(e).status \/ response.body # Catch(e).body)

----------------------------------------------------------------------------
(* C8 *)

\* C8 as stated: if a plugin of the route yields a Response, the handler of
\* the route is not called, no later route is called and handle() returns that
\* Response (of the lowest-index such plugin).
C8_PluginResponseReturned ==
  (Dispatching /\ ResponsePlugins # {}) =>
    /\ ~Logged("handler", idx)
    /\ \A j \in (idx + 1)..Len(routes) : ~Logged("route", j)
    /\ pc = "done" => response = results[Least(ResponsePlugins)].value

\* C8 amended: if a plugin of the route yields a Response, the handler of the
\* route is not called and no later route is called; handle() returns that
\* Response (of the lowest-index such plugin) unless the promise of another
\* plugin of the route is rejected, and then it returns what the catch clause
\* makes of the rejection.
C8_PluginResponseUnlessRejected ==
  (Dispatching /\ ResponsePlugins # {}) =>
    /\ ~Logged("handler", idx)
    /\ \A j \in (idx + 1)..Len(routes) : ~Logged("route", j)
    /\ pc \in {"await", "done"}
    /\ pc = "done" =>
         IF FailedPlugins = {}
           THEN response = results[Least(ResponsePlugins)].value /\ err = Null
           ELSE \E k \in FailedPlugins : response = Catch(results[k].value)

\* a plugin answered with a Response, which handle() returned; the handler
\* was not called and the second route, which matches too, was not called
C8_Witness ==
  /\ pc = "done"
  /\ Len(routes) = 2
  /\ idx = 1
  /\ ResponsePlugins # {}
  /\ FailedPlugins = {}
  /\ response = results[Least(ResponsePlugins)].value
  /\ response.status = 401
  /\ ~Logged("handler", 1)
  /\ RouteMatches(2)
  /\ ~Logged("route", 2)

----------------------------------------------------------------------------
(* C9 *)

CasePairs ==
  {<<"G", "g">>, <<"E", "e">>, <<"T", "t">>, <<"P", "p">>, <<"O", "o">>, <<"S", "s">>,
   <<"A", "a">>, <<"L", "l">>}

\* two strings are equal when the case of their letters is ignored
SameIgnoringCase(a, b) ==
  /\ Len(a) = Len(b)
  /\ \A n \in DOMAIN a : a[n] = b[n] \/ <<a[n], b[n]>> \in CasePairs \/ <<b[n], a[n]>> \in CasePairs

\* C9: a route registered under a verb gets past its method check only for a
\* request whose method is that verb, case ignored; a route registered under
\* 'all' gets past it for every request it is called with.
C9_MethodCheck ==
  Dispatching =>
    \A i \in DOMAIN routes :
      /\ (routes[i].property # <<"a", "l", "l">> /\ Logged("match", i)) =>
           SameIgnoringCase(request.method, routes[i].property)
      /\ (routes[i].property = <<"a", "l", "l">> /\ Logged("route", i)) => Logged("match", i)

\* a POST request: the 'get' route was called and left at the method check,
\* the 'all' route ran its handler
C9_Witness ==
  /\ Dispatching
  /\ request.method = <<"P", "O", "S", "T">>
  /\ \E i, j \in DOMAIN routes :
       /\ routes[i].property = <<"g", "e", "t">>
       /\ routes[i].patternSegments = routes[j].patternSegments
       /\ Logged("route", i) /\ ~Logged("match", i) /\ ~Logged("handler", i)
       /\ routes[j].property = <<"a", "l", "l">>
       /\ Logged("handler", j)

----------------------------------------------------------------------------
(* C10 *)

\* the plugins of the current route that contribute field f
Contributors(f) == {k \in DOMAIN results : f \in DOMAIN results[k].value.fields}

Greatest(S) == CHOOSE k \in S : \A j \in S : k >= j

\* C10: when every plugin of the route yields a field mapping, the handler is
\* called, and the context it is called with has the fields of the base
\* context and of every mapping, each with the value of the last plugin in
\* declaration order that contributes it, or else its value in the base context.
C10_ContextIsUnion ==
  /\ (Dispatching /\ Logged("URL", idx) /\ Len(results) = routes[idx].plugins
        /\ AllFulfilled /\ ResponsePlugins = {}) =>
       Logged("handler", idx)
  /\ pc = "handler" =>
       LET base == [params |-> match(segments, routes[idx].patternSegments),
                    url |-> URL(request.url), request |-> request]
           c == context.fields
       IN  /\ AllFulfilled /\ ResponsePlugins = {}
           /\ DOMAIN c = DOMAIN base \cup UNION {DOMAIN results[k].value.fields : k \in DOMAIN results}
           /\ \A f \in DOMAIN c :
                c[f] = IF Contributors(f) = {} THEN base[f]
                       ELSE results[Greatest(Contributors(f))].value.fields[f]

\* two plugins contribute 'user' with different values: the handler is called
\* with the value of the second, and with 'role' from the first
C10_Witness ==
  /\ pc = "handler"
  /\ Len(results) = 2
  /\ results[1].value.fields.user = Str(<<"alice">>)
  /\ results[2].value.fields.user = Str(<<"bob">>)
  /\ context.fields.user = Str(<<"bob">>)
  /\ context.fields.role = Str(<<"admin">>)
  /\ context.fields.request = request

----------------------------------------------------------------------------
(* C11 *)

\* plugin k of route i was called
Called(i, k) == \E n \in DOMAIN log : log[n] = Event("plugin", i, k)

\* the promise of plugin k of the current route has settled
Settled(k) == results[k].state \in {"fulfilled", "rejected", "threw"}

\* C11 as stated: once a route has matched, every plugin it declares has been
\* called before any is awaited, and every one of them has run to completion
\* before the results are inspected, the handler is called or handle() returns.
C11_AllPluginsComplete ==
  (Dispatching /\ idx \in Ran("URL")) =>
    /\ \A k \in 1..routes[idx].plugins : Called(idx, k)
    /\ (pc \in {"handler", "done"} \/ Logged("handler", idx)) =>
         \A k \in DOMAIN results : Settled(k)

\* C11 amended: once a route has matched, its plugins are called in order, all
\* of them before any is awaited unless one throws while being called, and then
\* the later ones are not called; the results are inspected and the handler is
\* called only after every plugin has run to completion, also when an earlier
\* plugin yields a Response; handle() returns with plugins of the route still
\* running only when a plugin has thrown or its promise was rejected.
C11_AllPluginsCompleteUnlessFailed ==
  (Dispatching /\ idx \in Ran("URL")) =>
    LET failed == FailedPlugins
    IN  /\ Len(results) = routes[idx].plugins
        /\ \A k \in DOMAIN results :
             Called(idx, k) <=> ~(\E j \in 1..(k - 1) : results[j].state = "threw")
        /\ \A k \in DOMAIN results : results[k].state = "notcalled" <=> ~Called(idx, k)
        /\ Logged("handler", idx) => AllFulfilled
        /\ (pc = "done" /\ failed = {}) => AllFulfilled
        /\ failed # {} => pc = "done" /\ ~Logged("handler", idx)

\* plugins [A, B]: A's promise settled first with a Response, B's was still
\* awaited and fulfilled with fields, and then A's Response was returned
C11_Witness ==
  /\ pc = "done"
  /\ Len(results) = 2
  /\ settledFirst = 1
  /\ results[1] = Fulfilled(PluginResponse(1))
  /\ results[2] = Fulfilled(PluginFields(2))
  /\ Called(idx, 1) /\ Called(idx, 2)
  /\ response = PluginResponse(1)

----------------------------------------------------------------------------
(* C12 *)

\* C12: a step that changes the route table is a registration call: it adds
\* exactly one route at the end of the table, leaves the routes already there
\* and their order as they were, calls no matcher, plugin or handler and starts
\* no dispatch, and returns the router, on which the next call can be made.
C12_RegisterAppendsOne ==
  [][(routes' # routes \/ receiver' # receiver) =>
       /\ Len(routes') = Len(routes) + 1
       /\ SubSeq(routes', 1, Len(routes)) = routes
       /\ routes'[Len(routes')].property \in Methods
       /\ receiver' = "router"
       /\ pc = "idle"
       /\ UNCHANGED <<pc, request, segments, idx, context, results, settledFirst,
                      response, err, log>>]_vars

\* two registrations chained on the router: '/users/:id' under get, then
\* '/users/me' under all, are in the table in that order and nothing was called
C12_Witness ==
  /\ pc = "idle"
  /\ receiver = "router"
  /\ Len(routes) = 2
  /\ routes[1] = [property |-> <<"g", "e", "t">>,
                   patternSegments |-> <<<<>>, <<"u", "s", "e", "r", "s">>, <<":", "i", "d">>>>,
                   plugins |-> 1]
  /\ routes[2] = [property |-> <<"a", "l", "l">>,
                   patternSegments |-> <<<<>>, <<"u", "s", "e", "r", "s">>, <<"m", "e">>>>,
                   plugins |-> 0]
  /\ log = <<>>

----------------------------------------------------------------------------
(* C16 *)

\* C16: a route that is called and whose method does not fit the request has
\* not had match() called; a route that is called and does not match, by
\* method or by pattern, has had no URL built, no plugin and no handler called;
\* and the step in which it is skipped changes only the position of the loop
\* and the log of calls: the request, the segments, the table and what
\* handle() has caught or will return are as they were.
C16_SkippedRouteInert ==
  /\ [](Dispatching =>
          \A i \in Ran("route") \ Matching :
            /\ i \notin Ran("URL") \cup Ran("plugin") \cup Ran("handler")
            /\ MethodRejects(routes[i].property, request.method) => i \notin Ran("match"))
  /\ [][(pc = "loop" /\ idx <= Len(routes) /\ ~RouteMatches(idx)) =>
          /\ pc' = "loop"
          /\ idx' = idx + 1
          /\ log' = log \o (IF MethodRejects(routes[idx].property, request.method)
                              THEN <<Event("route", idx, 0)>>
                              ELSE <<Event("route", idx, 0), Event("match", idx, 0)>>)
          /\ UNCHANGED <<call, outcome, app, first, receiver, routes, request, segments, context, results,
                         settledFirst, response, err>>]_vars

\* POST /users/42 with '/users/:id' registered under get with two plugins and
\* then under all: the get route was called and skipped with neither match()
\* nor a plugin called, and the all route's handler answered
C16_Witness ==
  /\ pc = "done"
  /\ request = PostUsers42
  /\ Len(routes) = 2
  /\ routes[1].property = <<"g", "e", "t">>
  /\ routes[1].plugins = 2
  /\ ~IsNullish(match(segments, routes[1].patternSegments))
  /\ Logged("route", 1)
  /\ ~Logged("match", 1) /\ ~Logged("plugin", 1) /\ ~Logged("handler", 1)
  /\ response = HandlerResponse(2)

----------------------------------------------------------------------------
(* C17 *)

\* C17: when a plugin of the route has thrown or its promise was rejected, the
\* handler of the route is not called and handle() has returned what the catch
\* clause makes of that failure: the thrown Response itself, or else a 500;
\* also when a plugin declared before it has yielded a Response.
C17_PluginFailureWins ==
  (Dispatching /\ FailedPlugins # {}) =>
    /\ pc = "done"
    /\ ~Logged("handler", idx)
    /\ \E k \in FailedPlugins :
         LET e == results[k].value
         IN  /\ err = e
             /\ IF IsResponse(e) THEN response = e
                ELSE /\ IsResponse(response)
                     /\ response.status = 500
                     /\ response.body = IF IsError(e) THEN e.message ELSE Null

\* plugins [A, B]: A's promise was fulfilled with a Response, B's was rejected
\* with an Error, and handle() returned the 500 of the Error, not A's Response
C17_Witness ==
  /\ pc = "done"
  /\ Len(results) = 2
  /\ results[1] = Fulfilled(PluginResponse(1))
  /\ results[2] = Rejected(Error(<<"boom", 2>>))
  /\ response = Response(Str(<<"boom", 2>>), 500)
  /\ response # PluginResponse(1)
  /\ ~Logged("handler", idx)

----------------------------------------------------------------------------
(* C18 *)

\* C18: when the handler of a route has completed with null or undefined the
\* route has not answered: the loop has moved past it, the next route in
\* registration order, if there is one, is the next to be called, and when it
\* is called it gets its method check, then match() if the method fits, then
\* its context, plugins and handler if it matches; when some route matches and
\* the handler of every matching route has completed with null or undefined,
\* handle() returns status 500 with a null body.
C18_NothingFallsThrough ==
  Dispatching =>
    LET nothing  == Ran("nothing")
        called   == Ran("route")
        matching == Matching
    IN  /\ \A i \in nothing :
             /\ i \in matching
             /\ idx > i
             /\ i < Len(routes) => (i + 1 \in called \/ (pc = "loop" /\ idx = i + 1))
             /\ i + 1 \in called =>
                  /\ i + 1 \in Ran("match")
                       <=> ~MethodRejects(routes[i + 1].property, request.method)
                  /\ i + 1 \in Ran("URL") <=> i + 1 \in matching
                  /\ (i + 1 \in matching /\ idx = i + 1 /\ AllFulfilled /\ ResponsePlugins = {})
                       => i + 1 \in Ran("handler")
        /\ (pc = "done" /\ matching # {} /\ matching \subseteq nothing) =>
             /\ err = Null
             /\ response.status = 500
             /\ response.body = Null

\* two routes match the request, the handler of each was called and completed
\* with null or undefined, and handle() returned the 500 with no body
C18_Witness ==
  /\ pc = "done"
  /\ Len(routes) = 2
  /\ Matching = {1, 2}
  /\ Ran("handler") = {1, 2}
  /\ Ran("nothing") = {1, 2}
  /\ log[Len(log)] = Event("nothing", 2, 0)
  /\ response = Response(Null, 500)

----------------------------------------------------------------------------
(* C19 *)

\* C19: the context the handler is called with has, for each of the fields
\* params, url and request, the value of the last plugin of the route that
\* contributes a field of that name, and the value of the base context (the
\* result of match(), the parsed URL, the request) only when no plugin does;
\* so context.params is the result of match() exactly when no plugin of the
\* route contributes params.
C19_PluginFieldsReplaceBase ==
  pc = "handler" =>
    LET params == match(segments, routes[idx].patternSegments)
        base   == BaseContext(params, request)
        c      == context.fields
    IN  /\ \A f \in {"params", "url", "request"} :
             /\ Contributors(f) = {} => c[f] = base[f]
             /\ Contributors(f) # {} =>
                  c[f] = results[Greatest(Contributors(f))].value.fields[f]
        /\ c.params = params <=> Contributors("params") = {}

\* the second plugin of the route contributes params and url: the handler is
\* called with the forged params and url, not with what match() returned for
\* '/users/:id' nor with the parsed URL, and with the request itself
C19_Witness ==
  /\ pc = "handler"
  /\ Len(results) = 2
  /\ match(segments, routes[idx].patternSegments)
       = Obj([n \in {<<"i", "d">>} |-> Str(<<"4", "2">>)])
  /\ context.fields.params = Obj([n \in {<<"i", "d">>} |-> Str(<<"forged">>)])
  /\ context.fields.url = Str(<<"forged">>)
  /\ context.fields.url # URL(request.url)
  /\ context.fields.request = request

----------------------------------------------------------------------------
(* C20 *)

\* the calls of new URL made so far in the dispatch
URLParses == {n \in DOMAIN log : log[n].op = "URL"}

\* C20: in a dispatch the request URL is parsed exactly once, however many
\* routes are called or match.
C20_URLParsedOnce ==
  Dispatching => Cardinality(URLParses) = 1

----------------------------------------------------------------------------
(* C14 *)

UsersId == <<"/", "u", "s", "e", "r", "s", "/", ":", "i", "d">>

\* { id: s }
IdIs(s) == Obj([n \in {<<"i", "d">>} |-> Str(s)])

\* C14: for the pattern '/users/:id' the match of '/users/42' is { id: "42" },
\* of '/users/42/extra' no match and of '/users/' no match; a path matches
\* exactly when it is '/users/' followed by one segment that is not empty, and
\* then id is that segment.
C14_NamedCaptureOneSegment ==
  (call.fn = "match" /\ call.pattern = UsersId /\ outcome # Null) =>
    LET got == outcome.value
    IN  /\ outcome.kind = "returned"
        /\ call.path = <<"/", "u", "s", "e", "r", "s", "/", "4", "2">> => got = IdIs(<<"4", "2">>)
        /\ call.path = <<"/", "u", "s", "e", "r", "s", "/", "4", "2", "/", "e", "x", "t", "r", "a">>
             => got = Null
        /\ call.path = <<"/", "u", "s", "e", "r", "s", "/">> => got = Null
        /\ \A s \in Segs \ {<<>>} :
             call.path = <<"/", "u", "s", "e", "r", "s", "/">> \o s => got = IdIs(s)
        /\ ~IsNullish(got) =>
             \E s \in Segs \ {<<>>} : call.path = <<"/", "u", "s", "e", "r", "s", "/">> \o s

\* '/users/' was matched against '/users/:id' and the result is no match
C14_Witness ==
  /\ call.fn = "match"
  /\ call.pattern = UsersId
  /\ call.path = <<"/", "u", "s", "e", "r", "s", "/">>
  /\ outcome = Returns(Null)

----------------------------------------------------------------------------
(* C15 *)

\* C15: ok(code, value, init) returns a response whose status is code; for
\* 204 and 205 it is no JSON response and its body is empty, whatever value
\* is; for the other codes its body is the JSON serialization of value, of
\* null when value is omitted, and its Content-Type is application/json.
C15_OkReturnsResponse ==
  (call.fn = "ok" /\ outcome # Null) =>
    /\ outcome.kind = "returned"
    /\ LET r == outcome.value
       IN  /\ IsResponse(r)
           /\ r.status = call.code
           /\ IF call.code \in {204, 205}
                THEN /\ r.headers["Content-Type"] # "application/json"
                     /\ r.body \in {Null, Str(<<>>)}
                ELSE /\ r.headers["Content-Type"] = "application/json"
                     /\ r.body = stringify(IF call.value = Undefined THEN Null ELSE call.value)

----------------------------------------------------------------------------
(* C13 *)

====
